---- MODULE Spec2Model ----
(***************************************************************************)
(* Model of utils/manager/generic.py (GenericManager): the query builder,  *)
(* the execution methods one()/all(), and create/update/delete with the    *)
(* save boundary, run against one SQLAlchemy AsyncSession (autoflush off,  *)
(* expire_on_commit off, project/database.py) over one table with a        *)
(* sequence primary key (id), a unique column (code) and a foreign-key     *)
(* column (ref). The entity type declares no created_by attribute and no   *)
(* relationships, as app/models.py Example does not.                       *)
(*                                                                         *)
(* A nullable value is a set with at most one element: {} is None / NULL,  *)
(* {v} is the value v.                                                     *)
(***************************************************************************)
EXTENDS Integers, Sequences, FiniteSets, TLC

\* ------------------------------------------------------------- bounds
MaxObj == 2       \* instances the callers construct through create()
MaxPage == 2      \* page numbers tried by paginate()
MaxLimit == 2     \* page sizes tried by paginate()
MaxOrder == 1     \* ORDER BY criteria a query accumulates
MaxReq == 2       \* requests in flight at once

\* ------------------------------------------------------ the entity type
Null == {}
Some(v) == {v}

Fields == {"id", "code", "ref"}
author_field_name == "created_by"
UniqueFields == {"code"}
Codes == {"a"}
Users == {"u"}
ParentIds == {1}            \* rows of the referenced table
RefIds == {1, 2}            \* 2 references a row that does not exist

\* every column is nullable without a default: a fresh instance holds None
ModelDefaults == [f \in Fields |-> Null]

\* hasattr(self.model, field)
hasattr_model(field) == field \in Fields

\* what model_dump() can hold: the payload's explicitly set fields
PayloadFields == {"code", "ref"}
FieldValues(f) ==
    IF f = "code" THEN {Some(c) : c \in Codes} \cup {Null}
    ELSE {Some(r) : r \in RefIds} \cup {Null}

\* rank of a column value for ORDER BY (NULL sorts as the largest value)
NullRank == MaxObj + 10
RankOf(f, v) ==
    IF v = Null THEN NullRank
    ELSE LET x == CHOOSE y \in v : TRUE IN
         IF f \in {"id", "ref"} THEN x
         ELSE IF x = "a" THEN 1 ELSE 2

\* ------------------------------------------------------------- state
VARIABLES
    objs,        \* the instances handed out so far: [state, attrs] by handle
    committed,   \* rows durable in the store
    txn,         \* rows as the session's open transaction sees them
    nextId,      \* the table's id sequence
    session,     \* "active", or "inactive" once a flush failed without rollback
    _db,         \* GenericManager._db: "unset" | "none" | "db"
    _query,      \* GenericManager._query
    last,        \* the last manager call: its arguments, session calls, outcome
    http,        \* the HTTP request being served: route, arguments, response
    tasks        \* the requests in flight on the event loop, by request

vars == <<objs, committed, txn, nextId, session, _db, _query, last, http, tasks>>

Handles == 1..Len(objs)

\* ------------------------------------------------------ query values
NoQuery(kind) ==
    [kind |-> kind, cols |-> <<>>, where |-> <<>>, order |-> <<>>,
     offset |-> Null, limit |-> Null]

\* _select: select(self.model) for "*", else select(*columns)
SelectQ(fields) ==
    [kind |-> "select",
     cols |-> IF \E i \in 1..Len(fields) : fields[i] = "*" THEN <<"*">> ELSE fields,
     where |-> <<>>, order |-> <<>>, offset |-> Null, limit |-> Null]

\* a keyword is a sequence of segments: <<"code">> or <<"code", "__in">>
KeyEndsWithIn(key) == Len(key) > 0 /\ key[Len(key)] = "__in"
KeyReplaceIn(key) == SelectSeq(key, LAMBDA s : s # "__in")
KeyName(key) == IF Len(key) = 1 THEN key[1] ELSE "?"

\* one keyword of _filter
FilterOne(query, key, value) ==
    IF KeyEndsWithIn(key)
    THEN [query EXCEPT !.where =
            Append(@, [field |-> KeyName(KeyReplaceIn(key)), op |-> "in", value |-> value])]
    ELSE [query EXCEPT !.where =
            Append(@, [field |-> KeyName(key), op |-> "eq", value |-> value])]

RECURSIVE FilterFrom(_, _, _)
FilterFrom(query, kwargs, i) ==
    IF i > Len(kwargs) THEN query
    ELSE FilterFrom(FilterOne(query, kwargs[i].key, kwargs[i].value), kwargs, i + 1)

\* faulty variant: _filter returning from inside its loop, after one keyword
Filter_FirstOnly(query, kwargs) ==
    IF Len(kwargs) = 0 THEN query
    ELSE FilterOne(query, kwargs[1].key, kwargs[1].value)

\* _filter
Filter(query, kwargs) == FilterFrom(query, kwargs, 1)

\* faulty variant: _paginate skipping page * limit rows
PaginateQ_PageTimesLimit(query, page, limit) ==
    [query EXCEPT !.offset = Some(page * limit), !.limit = Some(limit)]

\* _paginate
PaginateQ(query, page, limit) ==
    LET skip == (page - 1) * limit IN
    [query EXCEPT !.offset = Some(skip), !.limit = Some(limit)]

\* _order_by: [ok, query]; ok = FALSE is the ValueError
RECURSIVE OrderFrom(_, _, _, _)
OrderFrom(query, fields, mode, i) ==
    IF i > Len(fields) THEN [ok |-> TRUE, query |-> query]
    ELSE IF ~hasattr_model(fields[i]) THEN [ok |-> FALSE, query |-> query]
    ELSE OrderFrom([query EXCEPT !.order = Append(@, <<fields[i], mode>>)],
                   fields, mode, i + 1)

OrderByQ(query, fields, mode) ==
    IF mode \notin {"asc", "desc"} THEN [ok |-> FALSE, query |-> query]
    ELSE OrderFrom(query, fields, mode, 1)

\* ------------------------------------------------ executing a query
\* one WHERE criterion against a row
Matches(row, pred) ==
    IF pred.op = "in"
    THEN row[pred.field] # Null /\ row[pred.field] \subseteq pred.value
    ELSE row[pred.field] = pred.value

Matching(query, rows) ==
    {r \in rows : \A i \in 1..Len(query.where) : Matches(r, query.where[i])}

\* r1 may precede r2 under the ORDER BY list from criterion k on
RECURSIVE MayPrecede(_, _, _, _)
MayPrecede(r1, r2, order, k) ==
    IF k > Len(order) THEN TRUE
    ELSE LET f == order[k][1]
             a == RankOf(f, r1[f])
             b == RankOf(f, r2[f])
         IN IF a = b THEN MayPrecede(r1, r2, order, k + 1)
            ELSE IF order[k][2] = "desc" THEN a > b ELSE a < b

\* the orders in which the database may return the matching rows
Orderings(query, rows) ==
    LET m == Matching(query, rows)
        n == Cardinality(m)
    IN {s \in [1..n -> m] :
          /\ \A i, j \in 1..n : i # j => s[i] # s[j]
          /\ \A i, j \in 1..n : i < j => MayPrecede(s[i], s[j], query.order, 1)}

\* OFFSET / LIMIT
Window(query, s) ==
    LET from == IF query.offset = Null THEN 1
                ELSE (CHOOSE k \in query.offset : TRUE) + 1
        rest == IF from > Len(s) THEN <<>> ELSE SubSeq(s, from, Len(s))
    IN IF query.limit = Null THEN rest
       ELSE LET l == CHOOSE k \in query.limit : TRUE
            IN IF Len(rest) <= l THEN rest ELSE SubSeq(rest, 1, l)

ResultRows(query, rows) == {Window(query, s) : s \in Orderings(query, rows)}

\* the instance the session's identity map holds for a primary key
ObjOf(o, id) ==
    CHOOSE h \in 1..Len(o) :
        o[h].state \in {"persistent", "to_delete"} /\ o[h].attrs.id = id

\* scalars(): the mapped instance for select(model), else the first column
Scalar(o, query, row) ==
    IF query.cols = <<"*">> THEN [h |-> ObjOf(o, row.id), v |-> Null]
    ELSE [h |-> 0, v |-> row[query.cols[1]]]

Scalars(o, query, s) == [i \in 1..Len(s) |-> Scalar(o, query, s[i])]

\* `instance is None`
IsNone(item) == item.h = 0 /\ item.v = Null

\* _get_scalar: response.scalars().first(), NotFound if asked for and None
GetScalar(o, query, s, raise_error) ==
    LET items == Scalars(o, query, s)
        none == Len(items) = 0 \/ IsNone(items[1])
    IN IF raise_error /\ none THEN [outcome |-> "NotFound", ret |-> <<>>]
       ELSE [outcome |-> "ok", ret |-> IF none THEN <<>> ELSE <<items[1]>>]

\* _get_all_scalars: response.all()
GetAllScalars(o, query, s) == [outcome |-> "ok", ret |-> Scalars(o, query, s)]

\* --------------------------------------------------------- the session
\* A session value is [objs, txn, committed, nextId, session].
RowOf(rows, id) == CHOOSE r \in rows : r.id = id
RowIds(rows) == {r.id : r \in rows}

\* the constraint a written row violates: the unique index is checked when
\* the row is written, the foreign key at the end of the statement
UniqueClash(rows, row) ==
    \E r \in rows : r.id # row.id /\ \E f \in UniqueFields : row[f] # Null /\ r[f] = row[f]
FkBroken(row) == row.ref # Null /\ ~(row.ref \subseteq ParentIds)
Violation(rows, row) ==
    IF UniqueClash(rows, row) THEN "unique"
    ELSE IF FkBroken(row) THEN "fk"
    ELSE "none"

\* session.flush(): the unit of work emits UPDATEs for changed persistent
\* instances, INSERTs for pending ones, then DELETEs, and stops at the first
\* statement the database rejects. F = [objs, txn, nextId, err]; step k
\* handles instance ((k - 1) % n) + 1 in phase (k - 1) \div n.
\* (Intermediate values are bound through singleton sets, so that each is
\* computed once.)
FlushStep(F, k) ==
    LET n == Len(F.objs)
        h == ((k - 1) % n) + 1
        phase == (k - 1) \div n
        o == F.objs[h]
        withId == [o.attrs EXCEPT !.id = IF @ = Null THEN Some(F.nextId) ELSE @]
    IN CASE phase = 0 /\ o.state = "persistent" /\ RowOf(F.txn, o.attrs.id) # o.attrs ->
              [F EXCEPT !.txn = (@ \ {RowOf(F.txn, o.attrs.id)}) \cup {o.attrs},
                        !.err = Violation(F.txn, o.attrs)]
         [] phase = 1 /\ o.state = "pending" ->
              [F EXCEPT !.txn = @ \cup {withId},
                        !.objs[h] = [state |-> "persistent", attrs |-> withId],
                        !.nextId = IF o.attrs.id = Null THEN @ + 1 ELSE @,
                        !.err = Violation(F.txn, withId)]
         [] phase = 2 /\ o.state = "to_delete" ->
              [F EXCEPT !.txn = @ \ {RowOf(F.txn, o.attrs.id)},
                        !.objs[h].state = "deleted"]
         [] OTHER -> F

RECURSIVE FlushFrom(_, _)
FlushFrom(F, k) ==
    IF k > 3 * Len(F.objs) \/ F.err # "none" THEN F
    ELSE CHOOSE r \in {FlushFrom(G, k + 1) : G \in {FlushStep(F, k)}} : TRUE

\* [err, S]: a rejected flush leaves the session's instances as they were
\* (the sequence value it drew stays drawn)
FlushResult(S, F) ==
    IF F.err # "none"
    THEN [err |-> F.err, S |-> [S EXCEPT !.nextId = F.nextId]]
    ELSE [err |-> "none",
          S |-> [S EXCEPT !.objs = F.objs, !.txn = F.txn, !.nextId = F.nextId]]

Flush(S) ==
    CHOOSE r \in {FlushResult(S, F) :
                    F \in {FlushFrom([objs |-> S.objs, txn |-> S.txn,
                                      nextId |-> S.nextId, err |-> "none"], 1)}} : TRUE

\* session.commit(): flush, then make the transaction durable; an instance
\* whose row was deleted becomes detached
CommitResult(r) ==
    IF r.err # "none" THEN r
    ELSE [err |-> "none",
          S |-> [r.S EXCEPT
                   !.committed = r.S.txn,
                   !.objs = [h \in 1..Len(r.S.objs) |->
                               IF r.S.objs[h].state = "deleted"
                               THEN [r.S.objs[h] EXCEPT !.state = "detached"]
                               ELSE r.S.objs[h]]]]

Commit(S) == CHOOSE c \in {CommitResult(r) : r \in {Flush(S)}} : TRUE

\* session.rollback(): the open transaction is discarded; instances that are
\* not in the store leave the session, the others are expired and read the
\* committed row again
Rollback(S) ==
    [S EXCEPT
       !.txn = S.committed,
       !.objs = [h \in 1..Len(S.objs) |->
                   LET o == S.objs[h] IN
                   IF o.state \in {"transient", "detached"} THEN o
                   ELSE IF o.state # "pending" /\ o.attrs.id \in RowIds(S.committed)
                        THEN [state |-> "persistent",
                              attrs |-> RowOf(S.committed, o.attrs.id)]
                        ELSE [o EXCEPT !.state = "transient"]]]

\* faulty variant: a session that commits its transaction when it is closed
Close_CommitsOnExit(S) ==
    [S EXCEPT !.committed = S.txn, !.session = "closed"]

\* session.close(), the exit of `async with AsyncSessionLocal()`: the open
\* transaction is rolled back and every instance leaves the session
Close(S) ==
    [S EXCEPT
       !.txn = S.committed,
       !.session = "closed",
       !.objs = [h \in 1..Len(S.objs) |->
                   IF S.objs[h].state = "transient" THEN S.objs[h]
                   ELSE IF S.objs[h].state = "pending"
                        THEN [S.objs[h] EXCEPT !.state = "transient"]
                        ELSE [S.objs[h] EXCEPT !.state = "detached"]]]

\* session.refresh(instance): only an instance of the identity map can be
\* refreshed; [err, S]
Refresh(S, h) ==
    IF S.objs[h].state \notin {"persistent", "to_delete"}
    THEN [err |-> "InvalidRequestError", S |-> S]
    ELSE [err |-> "none",
          S |-> [S EXCEPT !.objs[h].attrs = RowOf(S.txn, S.objs[h].attrs.id)]]

\* --------------------------------------------------------- exceptions
\* the names utils/manager/exceptions.py defines
ExceptionNames == {"ManagerException", "AlreadyExist", "NotFound", "NoReference"}

\* `raise exceptions.<name>`: a name the module lacks is an AttributeError
RaiseNamed(name) == IF name \in ExceptionNames THEN name ELSE "AttributeError"

\* faulty variant: _handle_db_errors re-raising a foreign-key violation as it came
HandleDbErrors_FkUntranslated(cause) ==
    IF cause = "unique" THEN RaiseNamed("AlreadyExists")
    ELSE "IntegrityError"

\* _handle_db_errors, by the cause of the IntegrityError
HandleDbErrors(cause) ==
    IF cause = "unique" THEN RaiseNamed("AlreadyExists")
    ELSE IF cause = "fk" THEN RaiseNamed("NoReference")
    ELSE "IntegrityError"

\* ------------------------------------------------------------- save
\* What the database does to this call besides the model's constraints:
\*   "integrity"   the flush/commit is rejected for another integrity reason
\*                 (a NOT NULL or CHECK constraint)
\*   "operational" the flush/commit fails with an error that is no
\*                 IntegrityError; the session stays inactive until rolled back
Faults == {"none", "integrity", "operational"}

\* faulty variant: save whose except branch does not roll back
SaveResult_NoRollback(r, h, action) ==
    IF r.err # "none"
    THEN [outcome |-> HandleDbErrors(r.err), S |-> r.S, calls |-> <<action>>]
    ELSE CHOOSE x \in {[outcome |-> IF f.err = "none" THEN "ok" ELSE f.err, S |-> f.S,
                        calls |-> <<action, "refresh">>] : f \in {Refresh(r.S, h)}} : TRUE

\* faulty variant: save whose except branch commits instead of rolling back
SaveResult_CommitsOnError(r, h, action) ==
    IF r.err # "none"
    THEN [outcome |-> HandleDbErrors(r.err), S |-> [r.S EXCEPT !.committed = r.S.txn],
          calls |-> <<action, "commit">>]
    ELSE CHOOSE x \in {[outcome |-> IF f.err = "none" THEN "ok" ELSE f.err, S |-> f.S,
                        calls |-> <<action, "refresh">>] : f \in {Refresh(r.S, h)}} : TRUE

\* save, after the flush or commit returned r: the except branch, else the
\* refresh
SaveResult(r, h, action) ==
    IF r.err # "none"
    THEN [outcome |-> HandleDbErrors(r.err), S |-> Rollback(r.S),
          calls |-> <<action, "rollback">>]
    ELSE CHOOSE x \in {[outcome |-> IF f.err = "none" THEN "ok" ELSE f.err, S |-> f.S,
                        calls |-> <<action, "refresh">>] : f \in {Refresh(r.S, h)}} : TRUE

\* save: [outcome, S, calls]; outcome "ok" returns the instance
Save(S, h, action, fault) ==
    IF fault = "operational"
    THEN [outcome |-> "OperationalError", S |-> [S EXCEPT !.session = "inactive"],
          calls |-> <<action>>]
    ELSE CHOOSE x \in {SaveResult(r, h, action) :
                         r \in {IF fault = "integrity" THEN [err |-> "other", S |-> S]
                                ELSE IF action = "flush" THEN Flush(S)
                                ELSE Commit(S)}} : TRUE

\* ------------------------------------------------------------ inputs
Selects == {<<"*">>, <<"code">>}
Kwargs ==
    {<<>>,
     <<[key |-> <<"id">>, value |-> Some(1)]>>,
     <<[key |-> <<"code">>, value |-> Some("a")]>>,
     <<[key |-> <<"code", "__in">>, value |-> Codes]>>,
     <<[key |-> <<"code", "__in">>, value |-> Codes],
       [key |-> <<"ref">>, value |-> Some(1)]>>}
OrderFields == {<<>>, <<"id">>, <<"id", "nope">>, <<"nope">>}
Modes == {"asc", "desc", "up"}
Actions == {"commit", "flush"}

\* a validated Pydantic schema: its field values and model_fields_set
Payloads ==
    {p \in [set : SUBSET PayloadFields, code : FieldValues("code"),
            ref : FieldValues("ref")] :
        \A f \in PayloadFields : (f \in p.set) = (p[f] # Null)}
Excludes == {{}, {"ref"}}

\* how a call persists: save=False, or save=True with commit or flush; the
\* database faults are tried on a commit
SaveModes ==
    {m \in [save : BOOLEAN, action : Actions, fault : Faults] :
        /\ ~m.save => (m.action = "commit" /\ m.fault = "none")
        /\ m.fault # "none" => m.action = "commit"}

\* schema.model_dump(exclude_unset=True, exclude=exclude): the fields it holds
ModelDump(schema, exclude) == schema.set \ exclude

\* faulty variant: assigning every field of the schema, set or not
Assign_UnsetToo(attrs, schema, exclude) ==
    [f \in Fields |-> IF f \in PayloadFields \ exclude THEN schema[f] ELSE attrs[f]]

\* the attributes after assigning every dumped field
Assign(attrs, schema, exclude) ==
    [f \in Fields |-> IF f \in ModelDump(schema, exclude) THEN schema[f] ELSE attrs[f]]

Sess ==
    [objs |-> objs, txn |-> txn, committed |-> committed, nextId |-> nextId,
     session |-> session]
SetSess(S) ==
    /\ objs' = S.objs
    /\ txn' = S.txn
    /\ committed' = S.committed
    /\ nextId' = S.nextId
    /\ session' = S.session

\* the record of a manager call: the instance it was given or built (0 if
\* none), the fields it assigned from the schema, the session methods it
\* called, how it ended, what it returned
Call(op, h, fields, calls, outcome, ret) ==
    [op |-> op, h |-> h, fields |-> fields, calls |-> calls, outcome |-> outcome,
     ret |-> ret]

Entity(h) == [h |-> h, v |-> Null]

\* ---------------------------------------------------------- requests
\* an HTTP request and its response: the router and route it names, its path
\* and query arguments and body, whether the manager was invoked, the
\* exception that left the route function, the response status; sess is the
\* session get_async_session yields to it
NoBody == [set |-> {}, code |-> Null, ref |-> Null]
NoRequest ==
    [pc |-> "idle", sess |-> "none", router |-> "none", route |-> "none",
     id |-> 0, page |-> 0, limit |-> 0, body |-> NoBody, reached |-> FALSE,
     query |-> NoQuery("none"), raised |-> "none", status |-> 0]

\* a request in flight on the event loop: the session and query it built,
\* the arguments its execution method handed to the database call
Requests == 1..MaxReq
SessionNames == <<"db", "db2", "db3">>
NoTask ==
    [pc |-> "idle", route |-> "none", db |-> "none", built |-> NoQuery("none"),
     held_db |-> "none", held_query |-> NoQuery("none"),
     outcome |-> "none", ret |-> <<>>]

\* ------------------------------------------------------------- Init
Init ==
    /\ objs = <<>>
    /\ committed = {}
    /\ txn = {}
    /\ nextId = 1
    /\ session = "active"
    /\ _db = "unset"
    /\ _query = NoQuery("unset")
    /\ last = Call("init", 0, {}, <<>>, "ok", <<>>)
    /\ http = NoRequest
    /\ tasks = [r \in Requests |-> NoTask]

\* ----------------------------------------------------------- builder
\* _reset
Reset ==
    /\ _db' = "none"
    /\ _query' = NoQuery("none")

\* query(db, select, **kwargs)
Query(select, kwargs) ==
    /\ _db' = "db"
    /\ _query' = Filter(SelectQ(select), kwargs)
    /\ last' = Call("query", 0, {}, <<>>, "ok", <<>>)
    /\ UNCHANGED <<objs, committed, txn, nextId, session>>
    /\ UNCHANGED <<http, tasks>>

\* paginate(page, limit)
Paginate(page, limit) ==
    /\ IF _query.kind = "unset"
       THEN /\ last' = Call("paginate", 0, {}, <<>>, "AttributeError", <<>>)
            /\ UNCHANGED _query
       ELSE /\ _query' = IF _query.kind # "none" THEN PaginateQ(_query, page, limit)
                         ELSE _query
            /\ last' = Call("paginate", 0, {}, <<>>, "ok", <<>>)
    /\ UNCHANGED <<objs, committed, txn, nextId, session, _db>>
    /\ UNCHANGED <<http, tasks>>

\* faulty variant: order_by that keeps the orderings _order_by had applied
\* when it raised
OrderBy_KeepsPartial(fields, mode) ==
    /\ Len(_query.order) < MaxOrder
    /\ IF _query.kind = "unset"
       THEN /\ last' = Call("order_by", 0, {}, <<>>, "AttributeError", <<>>)
            /\ UNCHANGED _query
       ELSE IF _query.kind = "none"
       THEN /\ last' = Call("order_by", 0, {}, <<>>, "ok", <<>>)
            /\ UNCHANGED _query
       ELSE \E r \in {OrderByQ(_query, fields, mode)} :
            /\ _query' = r.query
            /\ last' = Call("order_by", 0, {}, <<>>,
                            IF r.ok THEN "ok" ELSE "ValueError", <<>>)
    /\ UNCHANGED <<objs, committed, txn, nextId, session, _db>>
    /\ UNCHANGED <<http, tasks>>

\* order_by(fields, mode)
OrderBy(fields, mode) ==
    /\ Len(_query.order) < MaxOrder
    /\ IF _query.kind = "unset"
       THEN /\ last' = Call("order_by", 0, {}, <<>>, "AttributeError", <<>>)
            /\ UNCHANGED _query
       ELSE IF _query.kind = "none"
       THEN /\ last' = Call("order_by", 0, {}, <<>>, "ok", <<>>)
            /\ UNCHANGED _query
       ELSE \E r \in {OrderByQ(_query, fields, mode)} :
            IF r.ok
            THEN /\ _query' = r.query
                 /\ last' = Call("order_by", 0, {}, <<>>, "ok", <<>>)
            ELSE /\ last' = Call("order_by", 0, {}, <<>>, "ValueError", <<>>)
                 /\ UNCHANGED _query
    /\ UNCHANGED <<objs, committed, txn, nextId, session, _db>>
    /\ UNCHANGED <<http, tasks>>

\* one(raise_error)
One(raise_error) ==
    /\ session = "active"
    /\ IF _db = "unset"
       THEN /\ last' = Call("one", 0, {}, <<>>, "AttributeError", <<>>)
            /\ UNCHANGED <<_db, _query>>
       ELSE IF _db # "none" /\ _query.kind # "none"
       THEN \E s \in ResultRows(_query, txn) :
            \E r \in {GetScalar(objs, _query, s, raise_error)} :
              /\ last' = Call("one", 0, {}, <<"execute">>, r.outcome, r.ret)
              /\ IF r.outcome = "ok" THEN Reset ELSE UNCHANGED <<_db, _query>>
       ELSE /\ last' = Call("one", 0, {}, <<>>, "ok", <<>>)
            /\ UNCHANGED <<_db, _query>>
    /\ UNCHANGED <<objs, committed, txn, nextId, session>>
    /\ UNCHANGED <<http, tasks>>

\* all()
All ==
    /\ session = "active"
    /\ IF _db = "unset"
       THEN /\ last' = Call("all", 0, {}, <<>>, "AttributeError", <<>>)
            /\ UNCHANGED <<_db, _query>>
       ELSE IF _db # "none" /\ _query.kind # "none"
       THEN \E s \in ResultRows(_query, txn) :
            \E r \in {GetAllScalars(objs, _query, s)} :
              /\ last' = Call("all", 0, {}, <<"scalars">>, r.outcome, r.ret)
              /\ Reset
       ELSE /\ last' = Call("all", 0, {}, <<>>, "ok", <<>>)
            /\ UNCHANGED <<_db, _query>>
    /\ UNCHANGED <<objs, committed, txn, nextId, session>>
    /\ UNCHANGED <<http, tasks>>

\* ------------------------------------------------------- persistence
\* faulty variant: create() that dumps the schema without its exclude list
NewAttrs_IgnoreExclude(schema, exclude, user) == Assign(ModelDefaults, schema, {})

\* the instance create() builds: model(**dump), then the author
NewAttrs(schema, exclude, user) ==
    LET dumped == Assign(ModelDefaults, schema, exclude) IN
    IF user # Null /\ hasattr_model(author_field_name)
    THEN [dumped EXCEPT ![author_field_name] = user]
    ELSE dumped

\* create(db, schema, exclude, user, action, save)
Create(schema, exclude, user, action, save, fault) ==
    /\ session = "active"
    /\ Len(objs) < MaxObj
    /\ \E h \in {Len(objs) + 1} :
       \E added \in {[Sess EXCEPT !.objs = Append(@, [state |-> "pending",
                          attrs |-> NewAttrs(schema, exclude, user)])]} :
         IF save
         THEN \E r \in {Save(added, h, action, fault)} :
                /\ SetSess(r.S)
                /\ last' = Call("create", h, ModelDump(schema, exclude), <<"add">> \o r.calls, r.outcome,
                                IF r.outcome = "ok" THEN <<Entity(h)>> ELSE <<>>)
         ELSE /\ SetSess(added)
              /\ last' = Call("create", h, ModelDump(schema, exclude), <<"add">>, "ok", <<Entity(h)>>)
    /\ UNCHANGED <<_db, _query>>
    /\ UNCHANGED <<http, tasks>>

\* faulty variant: update() that saves whatever its save argument says
Update_AlwaysSaves(h, schema, exclude, action, save, fault) ==
    /\ session = "active"
    /\ h \in Handles
    /\ objs[h].state \in {"persistent", "pending"}
    /\ \E changed \in {[Sess EXCEPT !.objs[h].attrs = Assign(@, schema, exclude)]} :
       \E r \in {Save(changed, h, action, fault)} :
          /\ SetSess(r.S)
          /\ last' = Call("update", h, ModelDump(schema, exclude), r.calls, r.outcome,
                          IF r.outcome = "ok" THEN <<Entity(h)>> ELSE <<>>)
    /\ UNCHANGED <<_db, _query>>
    /\ UNCHANGED <<http, tasks>>

\* update(db, instance, schema, exclude, action, save)
Update(h, schema, exclude, action, save, fault) ==
    /\ session = "active"
    /\ h \in Handles
    /\ objs[h].state \in {"persistent", "pending"}
    /\ \E changed \in {[Sess EXCEPT !.objs[h].attrs = Assign(@, schema, exclude)]} :
         IF save
         THEN \E r \in {Save(changed, h, action, fault)} :
                /\ SetSess(r.S)
                /\ last' = Call("update", h, ModelDump(schema, exclude), r.calls, r.outcome,
                                IF r.outcome = "ok" THEN <<Entity(h)>> ELSE <<>>)
         ELSE /\ SetSess(changed)
              /\ last' = Call("update", h, ModelDump(schema, exclude), <<>>, "ok", <<Entity(h)>>)
    /\ UNCHANGED <<_db, _query>>
    /\ UNCHANGED <<http, tasks>>

\* faulty variant: delete() that marks the instance and returns without saving
Delete_NoSave(h, action, fault) ==
    /\ session = "active"
    /\ h \in Handles
    /\ objs[h].state = "persistent"
    /\ SetSess([Sess EXCEPT !.objs[h].state = "to_delete"])
    /\ last' = Call("delete", h, {}, <<"delete">>, "ok", <<Entity(h)>>)
    /\ UNCHANGED <<_db, _query>>
    /\ UNCHANGED <<http, tasks>>

\* delete(db, instance, action)
Delete(h, action, fault) ==
    /\ session = "active"
    /\ h \in Handles
    /\ objs[h].state = "persistent"
    /\ \E marked \in {[Sess EXCEPT !.objs[h].state = "to_delete"]} :
       \E r \in {Save(marked, h, action, fault)} :
          /\ SetSess(r.S)
          /\ last' = Call("delete", h, {}, <<"delete">> \o r.calls, r.outcome,
                          IF r.outcome = "ok" THEN <<Entity(h)>> ELSE <<>>)
    /\ UNCHANGED <<_db, _query>>
    /\ UNCHANGED <<http, tasks>>

\* the end of the scope of get_async_session: the session is closed
Teardown ==
    /\ session # "closed"
    /\ SetSess(Close(Sess))
    /\ last' = Call("close", 0, {}, <<"close">>, "ok", <<>>)
    /\ UNCHANGED <<_db, _query, http, tasks>>

\* ------------------------------------------------------------- Next
Owners == {Null} \cup {Some(u) : u \in Users}

\* update payloads never re-point an instance at a missing parent row
UpdatePayloads == {p \in Payloads : p.ref # Some(2)}

\* The persistence manager over one session. (A session left inactive by a
\* failed flush raises on every further database call; those calls are not
\* modelled: the actions that reach the database require an active session.)
Next ==
    \/ \E schema \in Payloads, exclude \in Excludes, user \in Owners, m \in SaveModes :
          /\ user # Null => (m.save /\ m.fault = "none")
          /\ Create(schema, exclude, user, m.action, m.save, m.fault)
    \/ \E h \in Handles, schema \in UpdatePayloads, exclude \in Excludes, m \in SaveModes :
          Update(h, schema, exclude, m.action, m.save, m.fault)
    \/ \E h \in Handles, m \in SaveModes : m.save /\ Delete(h, m.action, m.fault)
    \/ Teardown

Spec == Init /\ [][Next]_vars

\* The query builder and one()/all() over a store that committed creates fill.
QueryInputs ==
    {<<sel, kw>> \in Selects \X Kwargs : sel = <<"*">> \/ kw = <<>>}

NextBuilder ==
    \/ \E q \in QueryInputs : Query(q[1], q[2])
    \/ \E page \in 1..MaxPage, limit \in 1..MaxLimit : Paginate(page, limit)
    \/ \E fields \in OrderFields, mode \in Modes : OrderBy(fields, mode)
    \/ \E raise_error \in BOOLEAN : One(raise_error)
    \/ All
    \/ \E schema \in UpdatePayloads : Create(schema, {}, Null, "commit", TRUE, "none")

SpecBuilder == Init /\ [][NextBuilder]_vars

\* ------------------------------------------------------ the HTTP routes
\* The two routers: "routes" is app/api/routes/v1.py, "v1" is app/api/v1/v1.py.
Routers == {"routes", "v1"}
RoutesLimitLe == 50
V1LimitLe == 5000
LimitLe(router) == IF router = "routes" THEN RoutesLimitLe ELSE V1LimitLe

\* Query(gt=0) on page, Query(gt=0, le=...) on limit
ValidPaging(router, page, limit) ==
    page > 0 /\ limit > 0 /\ limit <= LimitLe(router)

\* the status_code each exception of utils/manager/exceptions.py carries
StatusCodeOf(name) ==
    IF name = "NotFound" THEN 404
    ELSE IF name \in {"AlreadyExist", "NoReference"} THEN 409
    ELSE 500

\* the response to an exception that leaves the manager inside a route: the
\* routes of app/api/routes/v1.py that fetch an instance turn NotFound into
\* an HTTPException with the exception's status_code; every other exception
\* leaves the route function and the server answers 500
RespondRaised(router, route, exc) ==
    IF router = "routes" /\ route \in {"get_one", "update", "delete"} /\ exc = "NotFound"
    THEN StatusCodeOf(exc)
    ELSE 500

\* the request bodies: ExampleCreate requires code, ExampleUpdate has an
\* optional code; neither schema has another field
ExampleCreate == {p \in Payloads : p.set = {"code"}}
ExampleUpdate == {p \in Payloads : p.set \subseteq {"code"}}

PathIds == 1..MaxObj
Pages == {0, 1, 2}
Limits == {0, 1, RoutesLimitLe, RoutesLimitLe + 1, V1LimitLe, V1LimitLe + 1}

\* the requests tried: every route of the two routers (app/api/v1/v1.py has
\* no get-one route)
HttpRequests ==
    {[NoRequest EXCEPT !.router = rt, !.route = "list", !.page = pg, !.limit = lm] :
        rt \in Routers, pg \in Pages, lm \in Limits}
    \cup {[NoRequest EXCEPT !.router = "routes", !.route = "get_one", !.id = i] :
        i \in PathIds}
    \cup {[NoRequest EXCEPT !.router = rt, !.route = "create", !.body = b] :
        rt \in Routers, b \in ExampleCreate}
    \cup {[NoRequest EXCEPT !.router = rt, !.route = "update", !.id = i, !.body = b] :
        rt \in Routers, i \in PathIds, b \in ExampleUpdate}
    \cup {[NoRequest EXCEPT !.router = rt, !.route = "delete", !.id = i] :
        rt \in Routers, i \in PathIds}

\* the session's identity map after loading the rows s: a row without an
\* instance gets one
RECURSIVE LoadFrom(_, _, _)
LoadFrom(o, s, i) ==
    IF i > Len(s) THEN o
    ELSE IF \E h \in 1..Len(o) :
              o[h].state \in {"persistent", "to_delete"} /\ o[h].attrs.id = s[i].id
         THEN LoadFrom(o, s, i + 1)
         ELSE LoadFrom(Append(o, [state |-> "persistent", attrs |-> s[i]]), s, i + 1)

\* Depends(get_async_session) up to its yield: a new session for the request
get_async_session(req) ==
    /\ http.pc \in {"idle", "done"}
    /\ req.route = "create" => nextId <= MaxObj
    /\ http' = [req EXCEPT !.pc = "open", !.sess = "open"]
    /\ objs' = <<>>
    /\ txn' = committed
    /\ session' = "active"
    /\ UNCHANGED <<committed, nextId, _db, _query, last, tasks>>

\* the response of the request being served
Respond(reached, query, raised, status) ==
    http' = [http EXCEPT !.pc = "responded", !.reached = reached, !.query = query,
                         !.raised = raised, !.status = status]

\* get_examples: crud.Example.query(db).paginate(page, limit).all()
get_examples ==
    /\ http.pc = "open" /\ http.route = "list"
    /\ IF ~ValidPaging(http.router, http.page, http.limit)
       THEN /\ Respond(FALSE, NoQuery("none"), "RequestValidationError", 422)
            /\ UNCHANGED <<objs, _db, _query, last>>
       ELSE \E q \in {PaginateQ(Filter(SelectQ(<<"*">>), <<>>), http.page, http.limit)} :
            \E s \in ResultRows(q, txn) :
            \E o \in {LoadFrom(objs, s, 1)} :
            \E r \in {GetAllScalars(o, q, s)} :
               /\ objs' = o
               /\ Reset
               /\ last' = Call("all", 0, {}, <<"scalars">>, r.outcome, r.ret)
               /\ Respond(TRUE, q, "none", 200)
    /\ UNCHANGED <<committed, txn, nextId, session, tasks>>

\* crud.Example.query(db, id=example_id).one(): [outcome, ret, objs, query]
FetchOne(id) ==
    LET q == Filter(SelectQ(<<"*">>), <<[key |-> <<"id">>, value |-> Some(id)]>>) IN
    {LET o == LoadFrom(objs, s, 1)
         r == GetScalar(o, q, s, TRUE)
     IN [outcome |-> r.outcome, ret |-> r.ret, objs |-> o, query |-> q] :
        s \in ResultRows(q, txn)}

\* the builder after one(): reset unless _get_scalar raised
AfterOne(f) ==
    IF f.outcome = "ok" THEN Reset ELSE _db' = "db" /\ _query' = f.query

\* get_one_example (app/api/routes/v1.py only)
get_one_example ==
    /\ http.pc = "open" /\ http.route = "get_one"
    /\ \E f \in FetchOne(http.id) :
          /\ objs' = f.objs
          /\ AfterOne(f)
          /\ last' = Call("one", 0, {}, <<"execute">>, f.outcome, f.ret)
          /\ IF f.outcome = "ok"
             THEN Respond(TRUE, f.query, "none", 200)
             ELSE Respond(TRUE, f.query, f.outcome,
                          RespondRaised(http.router, http.route, f.outcome))
    /\ UNCHANGED <<committed, txn, nextId, session, tasks>>

\* create_example: crud.Example.create(db, schema)
create_example ==
    /\ http.pc = "open" /\ http.route = "create"
    /\ \E h \in {Len(objs) + 1} :
       \E added \in {[Sess EXCEPT !.objs = Append(@, [state |-> "pending",
                          attrs |-> NewAttrs(http.body, {}, Null)])]} :
       \E r \in {Save(added, h, "commit", "none")} :
          /\ SetSess(r.S)
          /\ last' = Call("create", h, ModelDump(http.body, {}), <<"add">> \o r.calls,
                          r.outcome, IF r.outcome = "ok" THEN <<Entity(h)>> ELSE <<>>)
          /\ IF r.outcome = "ok"
             THEN Respond(TRUE, NoQuery("none"), "none", 200)
             ELSE Respond(TRUE, NoQuery("none"), r.outcome,
                          RespondRaised(http.router, http.route, r.outcome))
    /\ UNCHANGED <<_db, _query, tasks>>

\* update_device: query(db, id=example_id).one(), then update(db, instance,
\* schema). (app/api/v1/v1.py annotates the body with schemas.DeviceUpdate, a
\* name app/schemas.py does not define; its body is modelled with the fields
\* of ExampleUpdate.)
update_device ==
    /\ http.pc = "open" /\ http.route = "update"
    /\ \E f \in FetchOne(http.id) :
          /\ AfterOne(f)
          /\ IF f.outcome # "ok"
             THEN /\ objs' = f.objs
                  /\ last' = Call("one", 0, {}, <<"execute">>, f.outcome, f.ret)
                  /\ Respond(TRUE, f.query, f.outcome,
                             RespondRaised(http.router, http.route, f.outcome))
                  /\ UNCHANGED <<committed, txn, nextId, session>>
             ELSE \E h \in {f.ret[1].h} :
                  \E changed \in {[Sess EXCEPT !.objs =
                        [f.objs EXCEPT ![h].attrs = Assign(@, http.body, {})]]} :
                  \E r \in {Save(changed, h, "commit", "none")} :
                     /\ SetSess(r.S)
                     /\ last' = Call("update", h, ModelDump(http.body, {}), r.calls,
                                     r.outcome,
                                     IF r.outcome = "ok" THEN <<Entity(h)>> ELSE <<>>)
                     /\ IF r.outcome = "ok"
                        THEN Respond(TRUE, f.query, "none", 200)
                        ELSE Respond(TRUE, f.query, r.outcome,
                                     RespondRaised(http.router, http.route, r.outcome))
    /\ UNCHANGED tasks

\* delete_example: app/api/routes/v1.py fetches with query(...).one() and
\* deletes; app/api/v1/v1.py calls fetch_query, which the manager does not have
delete_example ==
    /\ http.pc = "open" /\ http.route = "delete"
    /\ IF http.router = "v1"
       THEN /\ Respond(FALSE, NoQuery("none"), "AttributeError",
                       RespondRaised(http.router, http.route, "AttributeError"))
            /\ UNCHANGED <<objs, committed, txn, nextId, session, _db, _query, last>>
       ELSE \E f \in FetchOne(http.id) :
          /\ AfterOne(f)
          /\ IF f.outcome # "ok"
             THEN /\ objs' = f.objs
                  /\ last' = Call("one", 0, {}, <<"execute">>, f.outcome, f.ret)
                  /\ Respond(TRUE, f.query, f.outcome,
                             RespondRaised(http.router, http.route, f.outcome))
                  /\ UNCHANGED <<committed, txn, nextId, session>>
             ELSE \E h \in {f.ret[1].h} :
                  \E marked \in {[Sess EXCEPT !.objs =
                        [f.objs EXCEPT ![h].state = "to_delete"]]} :
                  \E r \in {Save(marked, h, "commit", "none")} :
                     /\ SetSess(r.S)
                     /\ last' = Call("delete", h, {}, <<"delete">> \o r.calls, r.outcome,
                                     IF r.outcome = "ok" THEN <<Entity(h)>> ELSE <<>>)
                     /\ IF r.outcome = "ok"
                        THEN Respond(TRUE, f.query, "none", 200)
                        ELSE Respond(TRUE, f.query, r.outcome,
                                     RespondRaised(http.router, http.route, r.outcome))
    /\ UNCHANGED tasks

\* faulty variant: a session scope whose exit closes only after a success
get_async_session_exit_OnlyOnSuccess ==
    /\ http.pc = "responded"
    /\ IF http.status = 200
       THEN /\ SetSess(Close(Sess))
            /\ http' = [http EXCEPT !.pc = "done", !.sess = "closed"]
       ELSE /\ http' = [http EXCEPT !.pc = "done"]
            /\ UNCHANGED <<objs, committed, txn, nextId, session>>
    /\ last' = Call("close", 0, {}, <<"close">>, "ok", <<>>)
    /\ UNCHANGED <<_db, _query, tasks>>

\* get_async_session after its yield: leaving `async with` closes the session,
\* whatever the route returned or raised
get_async_session_exit ==
    /\ http.pc = "responded"
    /\ SetSess(Close(Sess))
    /\ http' = [http EXCEPT !.pc = "done", !.sess = "closed"]
    /\ last' = Call("close", 0, {}, <<"close">>, "ok", <<>>)
    /\ UNCHANGED <<_db, _query, tasks>>

\* One request at a time through either router: its session is opened, its
\* route runs, its session is closed.
NextHttp ==
    \/ \E req \in HttpRequests : get_async_session(req)
    \/ get_examples
    \/ get_one_example
    \/ create_example
    \/ update_device
    \/ delete_example
    \/ get_async_session_exit

SpecHttp == Init /\ [][NextHttp]_vars

\* the server runs every request it accepted to the end
SpecHttpFair == SpecHttp /\ WF_vars(NextHttp)

\* ------------------------------------------- requests sharing a manager
\* Route coroutines run on one event loop: a coroutine runs without
\* interruption until it awaits the database, and another request's coroutine
\* may run before it resumes. tasks[r] is the coroutine of request r: the
\* session (db) and query (built) of its own request, and the arguments its
\* one()/all() passed to _get_scalar/_get_all_scalars (held_db, held_query).

\* faulty variant: an execution that reads the builder when it resumes
Executed_ReadAtResume(r) == [db |-> _db, query |-> _query]

\* what the execution of request r runs: the arguments of _get_scalar /
\* _get_all_scalars, evaluated before the coroutine suspends
Executed(r) == [db |-> tasks[r].held_db, query |-> tasks[r].held_query]

\* query(...)[.paginate(...)] and one()/all() up to `await db.execute(query)`
\* or `await db.scalars(query)`
AwaitExecution(r, route, built) ==
    /\ _db' = SessionNames[r]
    /\ _query' = built
    /\ tasks' = [tasks EXCEPT ![r] =
                   [pc |-> "suspended", route |-> route, db |-> SessionNames[r],
                    built |-> built, held_db |-> _db', held_query |-> _query',
                    outcome |-> "none", ret |-> <<>>]]
    /\ last' = Call("query", 0, {}, <<>>, "ok", <<>>)
    /\ UNCHANGED <<objs, committed, txn, nextId, session, http>>

\* get_one_example of request r: query(db, id=example_id).one()
OneAwait(r, id) ==
    /\ tasks[r].pc \in {"idle", "done"}
    /\ AwaitExecution(r, "get_one",
          Filter(SelectQ(<<"*">>), <<[key |-> <<"id">>, value |-> Some(id)]>>))

\* get_examples of request r: query(db).paginate(page, limit).all()
AllAwait(r, page, limit) ==
    /\ tasks[r].pc \in {"idle", "done"}
    /\ AwaitExecution(r, "list",
          PaginateQ(Filter(SelectQ(<<"*">>), <<>>), page, limit))

\* the database answers request r: _get_scalar / _get_all_scalars finish,
\* then one()/all() reset the builder (one() not when NotFound was raised)
Resume(r) ==
    /\ tasks[r].pc = "suspended"
    /\ \E e \in {Executed(r)} :
       \E s \in ResultRows(e.query, committed) :
       \E o \in {LoadFrom(<<>>, s, 1)} :
       \E res \in {IF tasks[r].route = "get_one" THEN GetScalar(o, e.query, s, TRUE)
                   ELSE GetAllScalars(o, e.query, s)} :
          /\ tasks' = [tasks EXCEPT ![r].pc = "done", ![r].held_db = e.db,
                                    ![r].held_query = e.query,
                                    ![r].outcome = res.outcome, ![r].ret = res.ret]
          /\ IF res.outcome = "ok" THEN Reset ELSE UNCHANGED <<_db, _query>>
          /\ last' = Call(IF tasks[r].route = "get_one" THEN "one" ELSE "all", 0, {},
                          <<"execute">>, res.outcome, res.ret)
    /\ UNCHANGED <<objs, committed, txn, nextId, session, http>>

\* Requests that share one manager object, over a store that committed
\* creates fill.
NextConc ==
    \/ \E r \in Requests, id \in PathIds : OneAwait(r, id)
    \/ \E r \in Requests, page \in 1..MaxPage, limit \in 1..MaxLimit :
          AllAwait(r, page, limit)
    \/ \E r \in Requests : Resume(r)
    \/ \E schema \in UpdatePayloads : Create(schema, {}, Null, "commit", TRUE, "none")

SpecConc == Init /\ [][NextConc]_vars

\* ============================================================= claims
\* query(db, **kwargs).one(raise_error) run on a session state: every result
\* the database's row order allows
QueryOne(o, rows, kwargs, raise_error) ==
    {GetScalar(o, Filter(SelectQ(<<"*">>), kwargs), s, raise_error) :
        s \in ResultRows(Filter(SelectQ(<<"*">>), kwargs), rows)}

ById(id) == <<[key |-> <<"id">>, value |-> id]>>

\* the session holds no change that a flush would still have to write
NothingPending ==
    \A h \in Handles :
        /\ objs[h].state \notin {"pending", "to_delete"}
        /\ objs[h].state = "persistent" => RowOf(txn, objs[h].attrs.id) = objs[h].attrs

\* C1: a create whose unique field repeats the value of a committed entity
\* fails with the AlreadyExist domain error, the session is rolled back, the
\* first entity is still readable and the second is not in the store.
C1_DuplicateCreateAlreadyExists ==
    [][(last'.op = "create" /\ NothingPending /\ txn = committed) =>
       \A schema \in Payloads, exclude \in Excludes, user \in Owners, action \in Actions :
         ( /\ last'.fields = schema.set \ exclude
           /\ \E r \in committed : \E f \in UniqueFields :
                  r[f] # Null /\ r[f] = NewAttrs(schema, exclude, user)[f]
           /\ Create(schema, exclude, user, action, TRUE, "none") )
         => ( /\ last'.outcome = "AlreadyExist"
              /\ last'.calls = <<"add", action, "rollback">>
              /\ committed' = committed /\ txn' = committed
              /\ \A r \in committed :
                   \A res \in QueryOne(objs', txn', ById(r.id), TRUE) :
                      res.outcome = "ok" /\ res.ret = <<Entity(ObjOf(objs, r.id))>>
              /\ objs'[last'.h].state = "transient" )
      ]_vars

\* C2: after every execution of one() or all() on a bound builder the
\* builder's session handle and query are empty.
C2_ResetAfterEveryExecution ==
    (last.op \in {"one", "all"} /\ last.calls # <<>>)
        => (_db = "none" /\ _query = NoQuery("none"))

\* C3: one() on a bound builder executes the query and resets the query
\* state; it fails with NotFound exactly when raise_error holds and no row
\* matches, returns None when raise_error is false and no row matches, and
\* otherwise returns the first row of the result.
C3_OneResetsAndReturnsFirst ==
    [][(last'.op = "one" /\ _db = "db" /\ _query.kind = "select") =>
       \A raise_error \in BOOLEAN :
         One(raise_error)
         => ( /\ _db' = "none" /\ _query' = NoQuery("none")
              /\ last'.calls = <<"execute">>
              /\ IF \A s \in ResultRows(_query, txn) : Len(s) = 0
                 THEN IF raise_error THEN last'.outcome = "NotFound"
                      ELSE last'.outcome = "ok" /\ last'.ret = <<>>
                 ELSE /\ last'.outcome = "ok"
                      /\ \E s \in ResultRows(_query, txn) :
                            last'.ret = <<Scalar(objs, _query, s[1])>> )
      ]_vars

\* C4: an update that returns overwrites exactly the fields the payload sets
\* and exclude does not name, and leaves every other field of the instance as
\* it was (the id of an instance the same call inserts is the one field the
\* database fills in).
C4_UpdateOverwritesOnlySetFields ==
    [][(last'.op = "update" /\ last'.outcome = "ok") =>
       \A h \in {last'.h}, schema \in UpdatePayloads, exclude \in Excludes :
         ( /\ last'.fields = schema.set \ exclude
           /\ \E m \in SaveModes : Update(h, schema, exclude, m.action, m.save, m.fault) )
         => \A f \in Fields :
              (f # "id" \/ objs[h].state = "persistent") =>
                 objs'[h].attrs[f] =
                    IF f \in schema.set /\ f \notin exclude THEN schema[f]
                    ELSE objs[h].attrs[f]
      ]_vars

C4_Witness ==
    /\ last.op = "update" /\ last.outcome = "ok"
    /\ last.calls = <<"commit", "refresh">>
    /\ last.fields = {"code"}
    /\ objs[last.h].attrs.code = Some("a")
    /\ objs[last.h].attrs.ref = Some(1)

\* C5: after a create that saved and returned, query(id = generated id).one()
\* in the same session returns that entity; its fields set in the payload and
\* not excluded hold the payload's values, its other fields the defaults.
C5_CreateThenOneReturnsPayload ==
    [][(last'.op = "create" /\ last'.outcome = "ok") =>
       \A schema \in Payloads, exclude \in Excludes, user \in Owners, m \in SaveModes :
         ( /\ m.save
           /\ last'.fields = schema.set \ exclude
           /\ Create(schema, exclude, user, m.action, m.save, m.fault) )
         => LET h == last'.h
                id == objs'[h].attrs.id
            IN /\ id # Null
               /\ \A res \in QueryOne(objs', txn', ById(id), TRUE) :
                    /\ res.outcome = "ok"
                    /\ res.ret = <<Entity(h)>>
               /\ \A f \in Fields \ {"id"} :
                    objs'[h].attrs[f] =
                       IF f \in schema.set /\ f \notin exclude THEN schema[f]
                       ELSE ModelDefaults[f]
      ]_vars

C5_Witness ==
    /\ last.op = "create" /\ last.outcome = "ok"
    /\ last.calls = <<"add", "commit", "refresh">>
    /\ last.fields = {"code"}
    /\ objs[last.h].attrs.code = Some("a")
    /\ objs[last.h].attrs.ref = Null
    /\ objs[last.h].attrs.id # Null

C7_DanglingReferenceNoReference ==
    [][(last'.op = "create" /\ NothingPending) =>
       \A schema \in Payloads, exclude \in Excludes, user \in Owners, action \in Actions :
         ( /\ last'.fields = schema.set \ exclude
           /\ \E r \in RefIds \ ParentIds :
                 "ref" \in schema.set \ exclude /\ schema.ref = Some(r)
           /\ ~UniqueClash(txn, NewAttrs(schema, exclude, user))
           /\ Create(schema, exclude, user, action, TRUE, "none") )
         => ( /\ last'.outcome = "NoReference"
              /\ last'.calls = <<"add", action, "rollback">>
              /\ committed' = committed /\ txn' = committed
              /\ objs'[last'.h].state = "transient"
              /\ \A r \in txn' \cup committed' : r.id # Some(nextId)
              /\ \A res \in QueryOne(objs', txn', ById(Some(nextId)), TRUE) :
                    res.outcome = "NotFound" )
      ]_vars

C7_Witness ==
    /\ last.op = "create" /\ last.outcome = "NoReference"
    /\ objs[last.h].attrs.ref = Some(2)
    /\ objs[last.h].state = "transient"
    /\ last.calls = <<"add", "commit", "rollback">>

\* C8 as stated: every failure of save that is neither a uniqueness nor a
\* foreign-key violation rolls the session back before it reaches the caller.
C8_EveryOtherErrorRollsBack ==
    (last.op \in {"create", "update", "delete"}
       /\ last.outcome \in {"IntegrityError", "OperationalError", "InvalidRequestError"})
        => last.calls[Len(last.calls)] = "rollback"

CountOf(calls, names) == Cardinality({i \in 1..Len(calls) : calls[i] \in names})

\* a call of create, update or delete that saves (flushes or commits, as the
\* call's record shows) under the database fault
SavingStep(fault) ==
    \E action \in {a \in Actions : CountOf(last'.calls, {a}) > 0} :
        \/ /\ last'.op = "create"
           /\ \E schema \in Payloads, exclude \in Excludes, user \in Owners :
                 /\ last'.fields = schema.set \ exclude
                 /\ Create(schema, exclude, user, action, TRUE, fault)
        \/ /\ last'.op = "update"
           /\ \E schema \in UpdatePayloads, exclude \in Excludes :
                 /\ last'.fields = schema.set \ exclude
                 /\ Update(last'.h, schema, exclude, action, TRUE, fault)
        \/ /\ last'.op = "delete"
           /\ Delete(last'.h, action, fault)

\* C8 (amended): an IntegrityError that is neither a uniqueness nor a
\* foreign-key violation is rolled back and reaches the caller untranslated;
\* an error that is no IntegrityError (from the flush/commit or from the
\* refresh) reaches the caller untranslated without a rollback; save rolls
\* back only for integrity errors and flushes or commits at most once.
C8_OnlyIntegrityErrorsRollBack ==
    [][ /\ SavingStep("integrity") =>
             /\ last'.outcome = "IntegrityError"
             /\ last'.calls[Len(last'.calls)] = "rollback"
             /\ txn' = committed /\ committed' = committed
        /\ SavingStep("operational") =>
             /\ last'.outcome = "OperationalError"
             /\ CountOf(last'.calls, {"rollback"}) = 0
             /\ txn' = txn /\ committed' = committed
        /\ last'.op \in {"create", "update", "delete"} =>
             /\ last'.outcome \in {"OperationalError", "InvalidRequestError"} =>
                   CountOf(last'.calls, {"rollback"}) = 0
             /\ CountOf(last'.calls, {"rollback"}) = 1 =>
                   last'.outcome \in {"IntegrityError", "AttributeError", "NoReference"}
             /\ CountOf(last'.calls, {"commit", "flush"}) <= 1
             /\ CountOf(last'.calls, {"rollback"}) <= 1
      ]_vars

C8_Witness ==
    /\ last.op = "update" /\ last.outcome = "IntegrityError"
    /\ last.calls = <<"commit", "rollback">>
    /\ txn = committed /\ committed # {}

\* order_by's arguments are invalid: a mode other than asc/desc, or a name
\* that is no field of the entity type
InvalidOrder(fields, mode) ==
    \/ mode \notin {"asc", "desc"}
    \/ \E i \in 1..Len(fields) : fields[i] \notin Fields

\* C9: order_by with a mode other than asc/desc or with a name that is no
\* field of the entity type fails with the invalid-argument error (ValueError)
\* at the call, whatever the builder state is.
C9_InvalidOrderAlwaysFails ==
    [][last'.op = "order_by" =>
       \A fields \in OrderFields, mode \in Modes :
         (InvalidOrder(fields, mode) /\ OrderBy(fields, mode))
         => last'.outcome = "ValueError"
      ]_vars

\* C10: for page >= 1 and limit > 0, paginate(page, limit) on a held query
\* sets its offset to (page - 1) * limit and its limit to limit; the offset
\* is never negative and is 0 for page 1.
C10_PaginateOffset ==
    [][(last'.op = "paginate" /\ _query.kind = "select") =>
       \A page \in 1..MaxPage, limit \in 1..MaxLimit :
         Paginate(page, limit)
         => /\ _query'.offset = Some((page - 1) * limit)
            /\ _query'.limit = Some(limit)
            /\ \A k \in _query'.offset : k >= 0
            /\ page = 1 => _query'.offset = Some(0)
            /\ _query' = [_query EXCEPT !.offset = _query'.offset, !.limit = _query'.limit]
      ]_vars

C10_Witness ==
    /\ last.op = "paginate" /\ last.outcome = "ok"
    /\ _query.kind = "select"
    /\ \E k \in _query.offset : k > 1
    /\ \E l \in _query.limit : l > 1

\* the builder is unbound: query() never ran, or an execution reset it
Unbound == _db \in {"unset", "none"} \/ _query.kind \in {"unset", "none"}

\* C11: one() and all() on an unbound builder do not fault and do not touch
\* the database: one() returns None (also with raise_error=True) and all()
\* returns an empty sequence.
C11_UnboundExecutionReturnsEmpty ==
    [][(last'.op \in {"one", "all"} /\ Unbound) =>
          /\ last'.outcome = "ok"
          /\ last'.ret = <<>>
          /\ last'.calls = <<>>
          /\ UNCHANGED <<objs, txn, committed>>
      ]_vars

\* the state of instance h before a call (an instance the call constructs
\* starts transient)
StateBefore(h) == IF h \in Handles THEN objs[h].state ELSE "transient"

\* the entity state machine of one call: transient -> staged (pending) ->
\* persisted (persistent); persisted -> pending deletion (to_delete) ->
\* removed (deleted, detached once committed)
Removed == {"deleted", "detached"}
MovesAlong(from, to) ==
    \/ from = to
    \/ from = "transient" /\ to \in {"pending", "persistent"}
    \/ from = "pending" /\ to = "persistent"
    \/ from = "persistent" /\ to \in {"to_delete"} \cup Removed
    \/ from = "to_delete" /\ to \in Removed
    \/ from \in Removed /\ to \in Removed

\* a call persists an instance only after staging it, and a call that
\* returns leaves no instance pending deletion
StagedBeforePersisted(h) ==
    (objs'[h].state = "persistent" /\ StateBefore(h) = "transient")
        => (Len(last'.calls) >= 2 /\ last'.calls[1] = "add"
              /\ last'.calls[2] \in Actions)
NoneLeftPendingDeletion ==
    last'.outcome = "ok" => \A h \in 1..Len(objs') : objs'[h].state # "to_delete"

\* a step that is a call of the manager (not the end of the session's scope)
ManagerCall == last'.op \in {"create", "update", "delete"}

\* C12 as stated: in every call every entity only moves along the state
\* machine's transitions.
C12_OnlyForwardTransitions ==
    [][ManagerCall => \A h \in 1..Len(objs') :
          /\ MovesAlong(StateBefore(h), objs'[h].state)
          /\ StagedBeforePersisted(h)
          /\ NoneLeftPendingDeletion
      ]_vars

\* where the rollback of a failed save puts an instance: at its committed
\* row if it has one, else out of the session
RolledBack(h) ==
    IF StateBefore(h) \in {"transient", "detached"} THEN objs'[h].state = StateBefore(h)
    ELSE IF StateBefore(h) # "pending" /\ objs[h].attrs.id \in RowIds(committed)
    THEN objs'[h].state = "persistent"
    ELSE objs'[h].state = "transient"

\* C12 (amended): an entity moves along the state machine's transitions in
\* every call whose save does not roll back; a call whose save fails with an
\* integrity error rolls back, which returns every entity to where the last
\* commit left it (staged and flushed entities leave the session, flushed
\* deletions are persisted again). No call persists an entity it did not
\* stage, and none that returns leaves an entity pending deletion.
C12_ForwardUnlessRolledBack ==
    [][ManagerCall => \A h \in 1..Len(objs') :
          /\ IF CountOf(last'.calls, {"rollback"}) > 0
             THEN RolledBack(h)
             ELSE MovesAlong(StateBefore(h), objs'[h].state)
          /\ StagedBeforePersisted(h)
          /\ NoneLeftPendingDeletion
      ]_vars

\* a failed create's rollback has put a flushed entity out of the session
C12_Witness ==
    /\ last.op = "create" /\ last.outcome = "NoReference"
    /\ \E h \in Handles :
          /\ h # last.h
          /\ objs[h].state = "transient"
          /\ objs[h].attrs.id # Null

\* C13: create and update with save=False call no flush, commit, rollback or
\* refresh: create returns the new entity added to the session and not
\* written to the store, update returns the instance with its attributes
\* changed in memory only.
C13_NoSaveTouchesNoStore ==
    [][(last'.op \in {"create", "update"}) =>
       \A schema \in {p \in Payloads : last'.fields \subseteq p.set}, exclude \in Excludes :
       \A action \in Actions :
         /\ \A user \in Owners :
              ( /\ last'.op = "create"
                /\ last'.fields = schema.set \ exclude
                /\ Create(schema, exclude, user, action, FALSE, "none") )
              => ( /\ last'.calls = <<"add">>
                   /\ last'.outcome = "ok" /\ last'.ret = <<Entity(last'.h)>>
                   /\ objs'[last'.h].state = "pending"
                   /\ objs'[last'.h].attrs.id = Null
                   /\ \A h \in Handles : objs'[h] = objs[h]
                   /\ UNCHANGED <<txn, committed, nextId, session>> )
         /\ ( /\ last'.op = "update"
              /\ last'.fields = schema.set \ exclude
              /\ Update(last'.h, schema, exclude, action, FALSE, "none") )
            => ( /\ last'.calls = <<>>
                 /\ last'.outcome = "ok" /\ last'.ret = <<Entity(last'.h)>>
                 /\ objs'[last'.h].state = objs[last'.h].state
                 /\ \A f \in Fields :
                      objs'[last'.h].attrs[f] =
                         IF f \in schema.set \ exclude THEN schema[f]
                         ELSE objs[last'.h].attrs[f]
                 /\ \A h \in Handles \ {last'.h} : objs'[h] = objs[h]
                 /\ UNCHANGED <<txn, committed, nextId, session>> )
      ]_vars

\* an update without save changed a persisted instance in memory, and its
\* row in the store is as before
C13_Witness ==
    /\ last.op = "update" /\ last.calls = <<>> /\ last.fields # {}
    /\ objs[last.h].state = "persistent"
    /\ objs[last.h].attrs.id \in RowIds(committed)
    /\ objs[last.h].attrs \notin txn \cup committed

\* a stored row satisfies every keyword filter: a plain key asks for
\* equality, a key with the __in suffix for membership of the field named by
\* the key without the suffix
Satisfies(row, kwargs) ==
    \A i \in 1..Len(kwargs) :
        LET key == kwargs[i].key IN
        IF key[Len(key)] = "__in"
        THEN \E v \in kwargs[i].value : row[key[1]] = Some(v)
        ELSE row[key[1]] = kwargs[i].value

SaveFailures == {"AlreadyExist", "AttributeError", "NoReference", "IntegrityError"}

\* C19: a create, update or delete that fails at save leaves the committed
\* contents of the store exactly as they were before the call.
C19_FailedSaveKeepsCommitted ==
    [][(last'.op \in {"create", "update", "delete"} /\ last'.outcome \in SaveFailures)
          => committed' = committed
      ]_vars

\* a delete failed at save over a store that holds committed rows and
\* flushed, uncommitted ones; the instance's row is still committed
C19_Witness ==
    /\ last.op = "delete" /\ last.outcome = "IntegrityError"
    /\ objs[last.h].attrs \in committed
    /\ \E h \in Handles : objs[h].state = "transient" /\ objs[h].attrs.id # Null

\* C20: an entity whose create/update returned with action=flush is readable
\* by queries in the same session, but a rollback by a later failed save, or
\* the session's teardown, discards every row flushed and not committed;
\* a commit makes the rows durable, and committed rows survive both.
C20_FlushedReadableNotDurable ==
    [][ /\ ( /\ last'.op \in {"create", "update"} /\ last'.outcome = "ok"
             /\ CountOf(last'.calls, {"flush"}) = 1 )
           => /\ \A res \in QueryOne(objs', txn', ById(objs'[last'.h].attrs.id), TRUE) :
                    res.outcome = "ok" /\ res.ret = <<Entity(last'.h)>>
              /\ committed' = committed
        /\ ( /\ last'.op \in {"create", "update"} /\ last'.outcome = "ok"
             /\ CountOf(last'.calls, {"commit"}) = 1 )
           => committed' = txn' /\ objs'[last'.h].attrs \in committed'
        /\ CountOf(last'.calls, {"rollback", "close"}) > 0
           => /\ committed' = committed
              /\ txn' = committed
      ]_vars

\* the session was closed over one committed entity and one that was only
\* flushed: the store holds the first and not the second
C20_Witness ==
    /\ last.op = "close"
    /\ txn = committed /\ Cardinality(committed) = 1
    /\ \E h1, h2 \in Handles :
          /\ objs[h1].attrs \in committed
          /\ objs[h2].state = "detached"
          /\ objs[h2].attrs.id # Null
          /\ objs[h2].attrs.id \notin RowIds(committed)

\* C15: every request's session is open from before its route calls the
\* manager until the route has answered, and is eventually closed after the
\* request, whether the route returned, raised a manager exception or raised
\* anything else.
C15_SessionOpenedBeforeClosedAfter ==
    /\ [](http.pc \in {"open", "responded"} => http.sess = "open" /\ session # "closed")
    /\ [](http.pc = "done" => http.sess = "closed" /\ session = "closed")
    /\ (http.sess = "open") ~> (http.sess = "closed")

\* a request whose route failed with an error that is no manager exception,
\* after the manager was invoked, and whose session is closed
C15_Witness ==
    /\ http.pc = "done"
    /\ http.reached
    /\ http.raised = "AttributeError"
    /\ http.status = 500
    /\ session = "closed"

\* C16: a NotFound that leaves the manager is answered with 404, an
\* AlreadyExist or NoReference with 409, on every route.
C16_ManagerExceptionsMapToStatus ==
    http.pc \in {"responded", "done"} =>
        /\ http.raised = "NotFound" => http.status = StatusCodeOf("NotFound")
        /\ http.raised \in {"AlreadyExist", "NoReference"} =>
              http.status = StatusCodeOf(http.raised)

\* C18: every list request that reached the manager had page >= 1 and
\* 1 <= limit <= 50, and the query it executed skips a non-negative number
\* of rows; a list request outside these bounds did not reach the manager.
C18_ListQueriesWithinBounds ==
    (http.route = "list" /\ http.pc \in {"responded", "done"}) =>
        IF http.reached
        THEN /\ http.page >= 1
             /\ http.limit >= 1 /\ http.limit <= RoutesLimitLe
             /\ \A k \in http.query.offset : k >= 0
             /\ http.query.limit = Some(http.limit)
        ELSE ~(http.page >= 1 /\ http.limit >= 1 /\ http.limit <= RoutesLimitLe)

\* C14: when requests that share the manager interleave at their database
\* suspension points, every one()/all() runs the query its own request built,
\* on its own request's session: the state a suspended request is about to
\* execute, and the state a finished one executed, is its own, whatever the
\* other requests wrote to or reset in the builder meanwhile.
C14_EachExecutionRunsItsOwnQuery ==
    \A r \in Requests :
        tasks[r].pc \in {"suspended", "done"} =>
            /\ tasks[r].db = SessionNames[r]
            /\ Executed(r).db = tasks[r].db
            /\ Executed(r).query = tasks[r].built
            /\ tasks[r].built.kind = "select"

\* a request is suspended at the database while the builder it wrote was
\* reset by another request, which got the rows of its own query
C14_Witness ==
    \E r, r2 \in Requests :
        /\ r # r2
        /\ tasks[r].pc = "suspended"
        /\ tasks[r2].pc = "done" /\ tasks[r2].outcome = "ok" /\ Len(tasks[r2].ret) > 0
        /\ tasks[r2].built # tasks[r].built
        /\ _db = "none" /\ _query = NoQuery("none")

\* C21: whenever save calls the session's refresh, the instance it passes is
\* persistent in the session at that moment (refresh does not change an
\* instance's state, so that is its state when the call ends): save never
\* refreshes an instance its own flush/commit has just removed.
C21_RefreshOnlyOnPersistent ==
    [][(ManagerCall /\ CountOf(last'.calls, {"refresh"}) > 0) =>
          /\ last'.h \in 1..Len(objs')
          /\ objs'[last'.h].state = "persistent"
      ]_vars

\* C22: an order_by that fails, for an invalid mode or for an unknown field
\* anywhere in its field list, leaves the builder's held query and session as
\* they were: the orderings of the valid fields before the unknown one are
\* not applied.
C22_FailedOrderByChangesNothing ==
    [][last'.op = "order_by" =>
       \A fields \in OrderFields, mode \in Modes :
         (InvalidOrder(fields, mode) /\ OrderBy(fields, mode) /\ last'.outcome # "ok")
         => (_query' = _query /\ _db' = _db)
      ]_vars

\* an order_by has failed on a builder that holds a paginated query, which
\* still has no ordering
C22_Witness ==
    /\ last.op = "order_by" /\ last.outcome = "ValueError"
    /\ _db = "db"
    /\ _query.kind = "select"
    /\ _query.limit # Null
    /\ _query.order = <<>>

====
